---- MODULE Spec2Model ----
(***************************************************************************)
(* Model of appswitch.c: main() and switchToApp().  One run of the program *)
(* is one behaviour: main checks argc, switchToApp creates the key array,  *)
(* asks the window server for a snapshot, scans it, decides, activates and *)
(* cleans up, and main turns the return value into the exit code.          *)
(***************************************************************************)
EXTENDS Integers, Sequences, FiniteSets, TLC

(* ---------------------------- bounds ----------------------------------- *)
MaxArgc == 3
MaxWindows == 2

(* ----------------------- program constants ----------------------------- *)
BufSize == 256
noErr == 0

(* an OSStatus other than noErr: procNotFound, paramErr *)
OSErrs == {noErr, -600, -50}

(* ------------------------------ inputs --------------------------------- *)
LongName(n) == [k \in 1..n |-> IF k = 1 THEN "A" ELSE IF k = 2 THEN "b" ELSE "x"]

OwnerNames ==
    { <<"a">>, <<"A", "b">>, LongName(BufSize - 1), LongName(BufSize) }

Fragments == { <<>>, <<"a">>, <<"b">>, <<"a", "B">>, <<"x">> }

Pids == {0, 1, 2}

NullEntry == [isNull |-> TRUE, hasName |-> FALSE, name |-> <<>>,
              hasPid |-> FALSE, pid |-> 0]

Entries ==
    {NullEntry}
    \cup { [isNull |-> FALSE, hasName |-> FALSE, name |-> <<>>, hasPid |-> TRUE, pid |-> 1] }
    \cup { [isNull |-> FALSE, hasName |-> TRUE, name |-> n, hasPid |-> TRUE, pid |-> p] :
             n \in OwnerNames, p \in Pids }
    \cup { [isNull |-> FALSE, hasName |-> TRUE, name |-> n, hasPid |-> FALSE, pid |-> 0] :
             n \in OwnerNames }

Snapshots == UNION { [1..n -> Entries] : n \in 0..MaxWindows }

(* ------------------------------ state ---------------------------------- *)
VARIABLES
    argc,          \* main's argc
    appName,       \* argv[1], the fragment
    pc,            \* position in the program
    keyArray,      \* "NULL" or "ref"
    runningApps,   \* "NULL" or "ref"
    windows,       \* contents of the snapshot runningApps refers to
    count,         \* CFArrayGetCount(runningApps)
    i,             \* loop index (0-based, as in the code)
    found,
    pid,
    err,
    psn,           \* process the serial number refers to, 0 when unset
    out,           \* lines printed on stdout
    osCalls,       \* GetProcessForPID / SetFrontProcess calls, in order
    frontProcess,  \* desktop focus: pid of the front process, 0 = some other
    created,       \* handles acquired by Create/Copy calls
    releases,      \* CFRelease calls per handle
    examined,      \* snapshot indices (1-based) the loop body looked at
    hits,          \* snapshot indices that passed the strcasestr test
    selected,      \* index at which the loop broke, 0 if it did not
    called,        \* switchToApp was called
    retval,        \* switchToApp's return value, -1 before it returns
    exitCode       \* main's return value, -1 before it returns

vars == <<argc, appName, pc, keyArray, runningApps, windows, count, i, found,
          pid, err, psn, out, osCalls, frontProcess, created, releases,
          examined, hits, selected, called, retval, exitCode>>

Handles == {"keyArray", "runningApps"}

Line(text, app, num) == [text |-> text, app |-> app, num |-> num]

(* --------------------------- libc / CF --------------------------------- *)
tolower(c) == CASE c = "A" -> "a" [] c = "B" -> "b" [] OTHER -> c

RECURSIVE MatchAt(_, _, _, _)
MatchAt(h, n, off, j) ==
    IF j > Len(n) THEN TRUE
    ELSE /\ off + j - 1 <= Len(h)
         /\ tolower(h[off + j - 1]) = tolower(n[j])
         /\ MatchAt(h, n, off, j + 1)

\* the lowest offset from off on at which n occurs in h, 0 if there is none
Search(h, n, off) ==
    LET at == { o \in off..(Len(h) - Len(n) + 1) : MatchAt(h, n, o, 1) }
    IN IF at = {} THEN 0 ELSE CHOOSE o \in at : \A q \in at : o <= q

\* case-sensitive search: strstr in place of strcasestr
ExactAt(h, n, off) ==
    LET at == { o \in off..(Len(h) - Len(n) + 1) :
                  \A j \in 1..Len(n) : h[o + j - 1] = n[j] }
    IN IF at = {} THEN 0 ELSE CHOOSE o \in at : \A q \in at : o <= q

strcasestr_strstr(h, n) == ExactAt(h, n, 1)

\* always finds the needle
strcasestr_always(h, n) == 1

\* position (1-based) of the first occurrence of n in h ignoring case,
\* 0 for NULL; an empty needle yields the haystack itself
strcasestr(h, n) == IF Len(n) = 0 THEN 1 ELSE Search(h, n, 1)

\* TRUE iff the UTF-8 bytes of s and the terminating NUL fit in the buffer
\* (the names here are ASCII: one byte per character)
CFStringGetCString(s, size) == Len(s) + 1 <= size

(* ------------------------------ Init ----------------------------------- *)
Init ==
    /\ argc \in 1..MaxArgc
    /\ appName \in Fragments
    /\ pc = "main"
    /\ keyArray = "NULL"
    /\ runningApps = "NULL"
    /\ windows = <<>>
    /\ count = 0
    /\ i = 0
    /\ found = 0
    /\ pid = 0
    /\ err = noErr
    /\ psn = 0
    /\ out = <<>>
    /\ osCalls = <<>>
    /\ frontProcess = 0
    /\ created = {}
    /\ releases = [h \in Handles |-> 0]
    /\ examined = {}
    /\ hits = {}
    /\ selected = 0
    /\ called = FALSE
    /\ retval = -1
    /\ exitCode = -1

(* ------------------------------ main ----------------------------------- *)
\* usage is shown only when no argument at all was given
ArgcOk_atleast(n) == n >= 2

\* line 84: the argument count main accepts
ArgcOk(n) == n = 2

\* lines 84-89: wrong argument count
MainUsage ==
    /\ pc = "main"
    /\ ~ArgcOk(argc)
    /\ out' = out \o << Line("Usage: %s <app_name>", <<>>, 0),
                        Line("Example: %s Safari", <<>>, 0),
                        Line("Example: %s \"Visual Studio Code\"", <<>>, 0) >>
    /\ exitCode' = 1
    /\ pc' = "exited"
    /\ UNCHANGED <<argc, appName, keyArray, runningApps, windows, count, i,
                   found, pid, err, psn, osCalls, frontProcess, created,
                   releases, examined, hits, selected, called, retval>>

\* line 91: main calls switchToApp(argv[1]); lines 7-14 initialise the locals
MainCall ==
    /\ pc = "main"
    /\ ArgcOk(argc)
    /\ called' = TRUE
    /\ pc' = "create"
    /\ UNCHANGED <<argc, appName, keyArray, runningApps, windows, count, i,
                   found, pid, err, psn, out, osCalls, frontProcess, created,
                   releases, examined, hits, selected, retval, exitCode>>

\* lines 91-95: the exit code from switchToApp's return value
MainExit ==
    /\ pc = "returned"
    /\ exitCode' = IF retval # 0 THEN 0 ELSE 1
    /\ pc' = "exited"
    /\ UNCHANGED <<argc, appName, keyArray, runningApps, windows, count, i,
                   found, pid, err, psn, out, osCalls, frontProcess, created,
                   releases, examined, hits, selected, called, retval>>

(* --------------------------- switchToApp ------------------------------- *)
\* lines 17-18: CFArrayCreate yields a new array, or NULL when it cannot
CreateKeyArray ==
    /\ pc = "create"
    /\ \E ok \in BOOLEAN :
         /\ keyArray' = IF ok THEN "ref" ELSE "NULL"
         /\ created' = IF ok THEN created \cup {"keyArray"} ELSE created
    /\ pc' = "enumerate"
    /\ UNCHANGED <<argc, appName, runningApps, windows, count, i, found, pid,
                   err, psn, out, osCalls, frontProcess, releases, examined,
                   hits, selected, called, retval, exitCode>>

\* a missing list is reported and the function carries on to the scan
EnumerateFail_fallthrough ==
    /\ pc = "enumerate"
    /\ runningApps' = "NULL"
    /\ out' = Append(out, Line("Failed to get running applications list", <<>>, 0))
    /\ count' = 0
    /\ pc' = "scan"
    /\ UNCHANGED <<argc, appName, keyArray, windows, i, found, pid, err, psn,
                   osCalls, frontProcess, created, releases, examined, hits,
                   selected, called, retval, exitCode>>

\* lines 20-28: CGWindowListCopyWindowInfo returns NULL
EnumerateFail ==
    /\ pc = "enumerate"
    /\ runningApps' = "NULL"
    /\ out' = Append(out, Line("Failed to get running applications list", <<>>, 0))
    /\ retval' = 0
    /\ pc' = "returned"
    /\ UNCHANGED <<argc, appName, keyArray, windows, count, i, found, pid, err,
                   psn, osCalls, frontProcess, created, releases, examined,
                   hits, selected, called, exitCode>>

\* lines 20-30: CGWindowListCopyWindowInfo returns a snapshot
EnumerateOk ==
    /\ pc = "enumerate"
    /\ \E snap \in Snapshots :
         /\ windows' = snap
         /\ count' = Len(snap)
    /\ runningApps' = "ref"
    /\ created' = created \cup {"runningApps"}
    /\ pc' = "scan"
    /\ UNCHANGED <<argc, appName, keyArray, i, found, pid, err, psn, out,
                   osCalls, frontProcess, releases, examined, hits, selected,
                   called, retval, exitCode>>

\* lines 35-44: the entry's owner name is there, converts, and contains appName
NameHit(app, name) ==
    /\ ~app.isNull
    /\ app.hasName
    /\ CFStringGetCString(app.name, BufSize)
    /\ strcasestr(app.name, name) # 0

\* the loop records the pid but keeps going after a match
ScanStep_nobreak ==
    /\ pc = "scan"
    /\ i < count
    /\ LET app == windows[i + 1]
           hit == NameHit(app, appName)
       IN /\ examined' = examined \cup {i + 1}
          /\ hits' = IF hit THEN hits \cup {i + 1} ELSE hits
          /\ IF hit /\ app.hasPid
             THEN /\ pid' = app.pid
                  /\ found' = 1
                  /\ selected' = i + 1
             ELSE UNCHANGED <<pid, found, selected>>
          /\ i' = i + 1
          /\ pc' = "scan"
    /\ UNCHANGED <<argc, appName, keyArray, runningApps, windows, count, err,
                   psn, out, osCalls, frontProcess, created, releases, called,
                   retval, exitCode>>

\* the loop brings every match to the front as it finds it
ScanStep_activate ==
    /\ pc = "scan"
    /\ i < count
    /\ LET app == windows[i + 1]
           hit == NameHit(app, appName)
       IN /\ examined' = examined \cup {i + 1}
          /\ hits' = IF hit THEN hits \cup {i + 1} ELSE hits
          /\ IF hit /\ app.hasPid
             THEN /\ pid' = app.pid
                  /\ found' = 1
                  /\ selected' = i + 1
                  /\ frontProcess' = app.pid
                  /\ pc' = "decide"
                  /\ UNCHANGED i
             ELSE /\ i' = i + 1
                  /\ pc' = "scan"
                  /\ UNCHANGED <<pid, found, selected, frontProcess>>
    /\ UNCHANGED <<argc, appName, keyArray, runningApps, windows, count, err,
                   psn, out, osCalls, created, releases, called, retval,
                   exitCode>>

\* lines 33-53: one iteration of the loop over the snapshot
ScanStep ==
    /\ pc = "scan"
    /\ i < count
    /\ LET app == windows[i + 1]
           hit == NameHit(app, appName)
       IN /\ examined' = examined \cup {i + 1}
          /\ hits' = IF hit THEN hits \cup {i + 1} ELSE hits
          /\ IF hit /\ app.hasPid
             THEN /\ pid' = app.pid
                  /\ found' = 1
                  /\ selected' = i + 1
                  /\ pc' = "decide"
                  /\ UNCHANGED i
             ELSE /\ i' = i + 1
                  /\ pc' = "scan"
                  /\ UNCHANGED <<pid, found, selected>>
    /\ UNCHANGED <<argc, appName, keyArray, runningApps, windows, count, err,
                   psn, out, osCalls, frontProcess, created, releases, called,
                   retval, exitCode>>

\* line 33: the loop condition fails
ScanEnd ==
    /\ pc = "scan"
    /\ ~(i < count)
    /\ pc' = "decide"
    /\ UNCHANGED <<argc, appName, keyArray, runningApps, windows, count, i,
                   found, pid, err, psn, out, osCalls, frontProcess, created,
                   releases, examined, hits, selected, called, retval, exitCode>>

\* line 55: a match with a usable pid goes on to activation
DecideActivate ==
    /\ pc = "decide"
    /\ found # 0 /\ pid > 0
    /\ pc' = "getpsn"
    /\ UNCHANGED <<argc, appName, keyArray, runningApps, windows, count, i,
                   found, pid, err, psn, out, osCalls, frontProcess, created,
                   releases, examined, hits, selected, called, retval, exitCode>>

\* lines 72-74: otherwise "not found" is printed; found is left as it is
DecideNotFound ==
    /\ pc = "decide"
    /\ ~(found # 0 /\ pid > 0)
    /\ out' = Append(out, Line("Application '%s' not found or not running", appName, 0))
    /\ pc' = "cleanup"
    /\ UNCHANGED <<argc, appName, keyArray, runningApps, windows, count, i,
                   found, pid, err, psn, osCalls, frontProcess, created,
                   releases, examined, hits, selected, called, retval, exitCode>>

\* the status of GetProcessForPID is not looked at
GetProcess_unchecked ==
    /\ pc = "getpsn"
    /\ \E e \in OSErrs :
         /\ err' = e
         /\ osCalls' = Append(osCalls, [fn |-> "GetProcessForPID", pid |-> pid, err |-> e])
         /\ psn' = IF e = noErr THEN pid ELSE psn
    /\ pc' = "setfront"
    /\ UNCHANGED <<argc, appName, keyArray, runningApps, windows, count, i,
                   found, pid, out, frontProcess, created, releases, examined,
                   hits, selected, called, retval, exitCode>>

\* lines 57-58, 68-71: GetProcessForPID and the test of its status
GetProcess ==
    /\ pc = "getpsn"
    /\ \E e \in OSErrs :
         /\ err' = e
         /\ osCalls' = Append(osCalls, [fn |-> "GetProcessForPID", pid |-> pid, err |-> e])
         /\ psn' = IF e = noErr THEN pid ELSE psn
         /\ IF e = noErr
            THEN /\ pc' = "setfront"
                 /\ UNCHANGED <<out, found>>
            ELSE /\ out' = Append(out, Line("Failed to get process serial number (error: %d)", <<>>, e))
                 /\ found' = 0
                 /\ pc' = "cleanup"
    /\ UNCHANGED <<argc, appName, keyArray, runningApps, windows, count, i,
                   pid, frontProcess, created, releases, examined, hits,
                   selected, called, retval, exitCode>>

\* lines 60-67: SetFrontProcess and the test of its status
SetFront ==
    /\ pc = "setfront"
    /\ \E e \in OSErrs :
         /\ err' = e
         /\ osCalls' = Append(osCalls, [fn |-> "SetFrontProcess", pid |-> psn, err |-> e])
         /\ frontProcess' = IF e = noErr THEN psn ELSE frontProcess
         /\ IF e = noErr
            THEN /\ out' = Append(out, Line("Switched to: %s (PID: %d)", appName, pid))
                 /\ found' = 1
            ELSE /\ out' = Append(out, Line("Failed to bring application to front (error: %d)", <<>>, e))
                 /\ found' = 0
    /\ pc' = "cleanup"
    /\ UNCHANGED <<argc, appName, keyArray, runningApps, windows, count, i,
                   pid, psn, created, releases, examined, hits, selected,
                   called, retval, exitCode>>

\* lines 76-80: release what is non-NULL and return found
Cleanup ==
    /\ pc = "cleanup"
    /\ releases' = [h \in Handles |->
                      IF \/ h = "runningApps" /\ runningApps # "NULL"
                         \/ h = "keyArray" /\ keyArray # "NULL"
                      THEN releases[h] + 1 ELSE releases[h]]
    /\ retval' = found
    /\ pc' = "returned"
    /\ UNCHANGED <<argc, appName, keyArray, runningApps, windows, count, i,
                   found, pid, err, psn, out, osCalls, frontProcess, created,
                   examined, hits, selected, called, exitCode>>

Next ==
    \/ MainUsage
    \/ MainCall
    \/ CreateKeyArray
    \/ EnumerateFail
    \/ EnumerateOk
    \/ ScanStep
    \/ ScanEnd
    \/ DecideActivate
    \/ DecideNotFound
    \/ GetProcess
    \/ SetFront
    \/ Cleanup
    \/ MainExit

Spec == Init /\ [][Next]_vars

(* ====================== properties ====================================== *)
\* two characters that are the same letter, whatever their case
SameLetter(c, d) == c = d \/ {c, d} \in { {"a", "A"}, {"b", "B"} }

\* n occurs in h as a contiguous run of characters, ignoring letter case
Contains(h, n) ==
    \E k \in 0..(Len(h) - Len(n)) : \A j \in 1..Len(n) : SameLetter(h[k + j], n[j])

\* the entry's owner name is there and contains the fragment
NameContains(e) == ~e.isNull /\ e.hasName /\ Contains(e.name, appName)

\* the owner name and its terminating NUL fit the conversion buffer
Fits(e) == Len(e.name) < BufSize

\* switchToApp has been called and has returned
Returned == called /\ pc \in {"returned", "exited"}

Min(S) == CHOOSE m \in S : \A q \in S : m <= q

IsCall(k, fn) == osCalls[k].fn = fn

SetFrontCalls(calls) == { k \in DOMAIN calls : calls[k].fn = "SetFrontProcess" }

Texts == { out[k].text : k \in DOMAIN out }

NotFoundLine == Line("Application '%s' not found or not running", appName, 0)

UsageLines == << Line("Usage: %s <app_name>", <<>>, 0),
                 Line("Example: %s Safari", <<>>, 0),
                 Line("Example: %s \"Visual Studio Code\"", <<>>, 0) >>

\* C1: the program exits with 0 exactly when SetFrontProcess was called and
\* returned noErr, and with 1 in every other case.
C1_ExitCode ==
    pc = "exited" =>
        /\ exitCode \in {0, 1}
        /\ exitCode = 0 <=>
             \E k \in SetFrontCalls(osCalls) : osCalls[k].err = noErr

\* C2: when the first entry whose owner name contains the fragment has a
\* missing or zero pid, switchToApp returns 0 and makes no activation call.
C2_InvalidPid ==
    LET M == { k \in DOMAIN windows : NameContains(windows[k]) }
    IN (Returned /\ runningApps = "ref" /\ M # {}
          /\ (~windows[Min(M)].hasPid \/ windows[Min(M)].pid = 0))
       => (retval = 0 /\ osCalls = <<>>)

C4_AtMostOneActivation ==
    [][ /\ Cardinality(SetFrontCalls(osCalls')) <= 1
        /\ (pc # "setfront" => frontProcess' = frontProcess)
        /\ (pc \in {"enumerate", "scan"} => osCalls' = osCalls) ]_vars

\* the one activation has happened after a scan of a non-empty snapshot
C4_Witness ==
    /\ Returned
    /\ Cardinality(SetFrontCalls(osCalls)) = 1
    /\ frontProcess # 0
    /\ Cardinality(examined) >= 2

\* C5: when no owner name in the snapshot contains the fragment, switchToApp
\* prints the "not found" line, returns 0 and makes no activation call.
C5_NotFound ==
    (Returned /\ runningApps = "ref"
       /\ \A k \in DOMAIN windows : ~NameContains(windows[k]))
    => (out = <<NotFoundLine>> /\ retval = 0 /\ osCalls = <<>>)

\* nothing matched in a snapshot that has named entries with usable pids
C5_Witness ==
    /\ Returned /\ runningApps = "ref"
    /\ \A k \in DOMAIN windows : ~NameContains(windows[k])
    /\ \E k \in DOMAIN windows :
         windows[k].hasName /\ windows[k].hasPid /\ windows[k].pid > 0
    /\ out = <<NotFoundLine>>

\* C6: a rejected GetProcessForPID or SetFrontProcess is reported with its
\* error code and makes switchToApp return 0; SetFrontProcess is not called
\* after a rejected GetProcessForPID; "Switched to" needs both to succeed.
C6_ActivationError ==
    /\ \A k \in DOMAIN osCalls :
         (IsCall(k, "GetProcessForPID") /\ osCalls[k].err # noErr)
         => SetFrontCalls(osCalls) = {}
    /\ "Switched to: %s (PID: %d)" \in Texts =>
         /\ Len(osCalls) = 2
         /\ \A k \in DOMAIN osCalls : osCalls[k].err = noErr
    /\ (Returned /\ osCalls # <<>>) =>
         LET last == osCalls[Len(osCalls)]
         IN last.err # noErr =>
              /\ retval = 0
              /\ out = << Line(IF last.fn = "GetProcessForPID"
                               THEN "Failed to get process serial number (error: %d)"
                               ELSE "Failed to bring application to front (error: %d)",
                               <<>>, last.err) >>

\* GetProcessForPID was rejected for a match with a positive pid
C6_Witness ==
    /\ Returned
    /\ Len(osCalls) = 1
    /\ osCalls[1].err # noErr
    /\ osCalls[1].pid > 0
    /\ retval = 0

\* C7: when the window list cannot be had, switchToApp prints exactly the
\* enumeration failure line, returns 0, scans nothing and calls neither
\* GetProcessForPID nor SetFrontProcess.
C7_EnumerationError ==
    (Returned /\ runningApps = "NULL")
    => /\ out = << Line("Failed to get running applications list", <<>>, 0) >>
       /\ retval = 0
       /\ examined = {}
       /\ osCalls = <<>>

\* the enumeration failed and switchToApp has returned
C7_Witness ==
    /\ Returned /\ runningApps = "NULL"
    /\ Len(out) = 1
    /\ exitCode = 1

\* C8: with an argument count other than one (argc # 2) main prints the
\* usage text, exits with 1 and never calls switchToApp, so no handle is
\* acquired and no OS call is made.
C8_Usage ==
    argc # 2 =>
        /\ ~called
        /\ created = {} /\ osCalls = <<>> /\ windows = <<>>
        /\ pc = "exited" => (out = UsageLines /\ exitCode = 1)

\* main has exited on a run with more than one argument
C8_Witness == pc = "exited" /\ argc > 2 /\ out = UsageLines

\* C9: every handle switchToApp acquired has been released exactly once by
\* the time it returns.
C9_Released ==
    Returned => \A h \in created : releases[h] = 1

\* C10: an examined entry is treated as a match exactly when its owner name
\* is present, fits the buffer and contains the fragment ignoring case;
\* entries with an absent or oversized name are never selected; the empty
\* fragment matches every entry whose name is present and fits.
C10_Match ==
    /\ \A k \in examined :
         k \in hits <=> (NameContains(windows[k]) /\ Fits(windows[k]))
    /\ selected # 0 =>
         /\ selected \in hits
         /\ windows[selected].hasName /\ Fits(windows[selected])
    /\ appName = <<>> =>
         \A k \in examined :
            (~windows[k].isNull /\ windows[k].hasName /\ Fits(windows[k]))
            => k \in hits

\* an oversized name that contains the fragment was passed over and a name
\* differing from the fragment in case was taken as a match
C10_Witness ==
    /\ appName = <<"a", "B">>
    /\ \E k \in hits : windows[k].name = <<"A", "b">>
    /\ \E j \in examined \ hits : NameContains(windows[j]) /\ ~Fits(windows[j])

====
